---- MODULE Spec2Model ----
(***************************************************************************)
(* BioChamber control fragment (src/main.py).                              *)
(*                                                                         *)
(* One run of process_bioreactor() fetches live_readings.json, extracts    *)
(* four floats, predicts a growth score, derives three actuator commands   *)
(* and PATCHes control.json.  Streamlit re-runs the fragment every 5 s.    *)
(*                                                                         *)
(* Numbers: sensor values and setpoints are decimal fixed point in         *)
(* hundredths (37.0 degC = 3700, pH 6.75 = 675, 0.5 = 50); the predicted   *)
(* efficiency is in ten-thousandths and the published growth score in      *)
(* thousandths, the precision of round(efficiency, 3).                     *)
(***************************************************************************)
EXTENDS Integers, Sequences, FiniteSets, TLC

VARIABLES
    ideal,      \* ideal_t, ideal_p, ideal_do chosen in the sidebar
    control,    \* the store's document at control.json
    pc,         \* position of the fragment
    resp,       \* result of requests.get in this run
    cur,        \* cur_t, cur_p, cur_do, cur_od
    efficiency, \* ai_brain.predict(current_features)[0]
    actions,    \* the actions dict
    payload,    \* control_payload
    patched,    \* bodies of the PATCH requests sent in this run
    patchResult,\* how the PATCH request of this run ended
    ui          \* what this run of the fragment shows to the operator

vars == <<ideal, control, pc, resp, cur, efficiency, actions, payload, patched, patchResult, ui>>

----------------------------------------------------------------------------
(* Bounds of the model *)

\* number of channels in which an enumerated reading departs from the base reading
MaxDeviations == 2

----------------------------------------------------------------------------
(* JSON values and documents *)

\* a key that is not in the document
Absent == [t |-> "absent", v |-> 0]
\* a string float() cannot convert, such as "n/a"
NonNumeric == [t |-> "str", v |-> 0]
\* JSON null
Null == [t |-> "null", v |-> 0]
\* a JSON number
Num(n) == [t |-> "num", v |-> n]
\* a string holding a number, such as "7.0"
NumStr(n) == [t |-> "numstr", v |-> n]

ReadKeys == {"temperature", "ph", "dissolved_oxygen", "optical_density"}
OtherKeys == {"dissolvedOxygen", "opticalDensity", "error"}
Keys == ReadKeys \cup OtherKeys

MkDoc(t, p, d, o) ==
    [k \in Keys |->
        CASE k = "temperature" -> t
          [] k = "ph" -> p
          [] k = "dissolved_oxygen" -> d
          [] k = "optical_density" -> o
          [] OTHER -> Absent]

EmptyDoc == [k \in Keys |-> Absent]

\* the body Firebase sends with a rejected request: {"error": "Permission denied"}
ErrorDoc == [k \in Keys |-> IF k = "error" THEN NonNumeric ELSE Absent]

\* a reading stored under camel-case names
CamelDoc ==
    [k \in Keys |->
        CASE k = "temperature" -> Num(3700)
          [] k = "ph" -> Num(700)
          [] k = "dissolvedOxygen" -> Num(4000)
          [] k = "opticalDensity" -> Num(80)
          [] OTHER -> Absent]

BaseT == Num(3700)
BaseP == Num(700)
BaseD == Num(4000)
BaseO == Num(80)

TempVals == {Absent, NonNumeric, Num(3650), Num(3700), Num(3750), Num(3751)}
PhVals == {Absent, NonNumeric, NumStr(700), Num(670), Num(675), Num(680), Num(700), Num(720),
           Num(725)}
DoVals == {Absent, NonNumeric, Num(3490), Num(3500), Num(3600), Num(4000), Num(4900),
           Num(5000), Num(5100)}
OdVals == {Absent, NonNumeric, Null, Num(80)}

Dev(x, base) == IF x = base THEN 0 ELSE 1

SweepDocs ==
    {MkDoc(t, p, d, o) : <<t, p, d, o>> \in
        {q \in TempVals \X PhVals \X DoVals \X OdVals :
            Dev(q[1], BaseT) + Dev(q[2], BaseP) + Dev(q[3], BaseD) + Dev(q[4], BaseO)
                <= MaxDeviations}}

Docs == SweepDocs \cup {EmptyDoc, ErrorDoc, CamelDoc}

\* variant: data[key] without a default
DictGetNoDefault(d, k) == d[k]

\* data.get(key, 0)
DictGet(d, k) == IF d[k].t = "absent" THEN Num(0) ELSE d[k]

\* float(x) raises ValueError on a string that holds no number, TypeError on None
FloatRaises(x) == x.t \notin {"num", "numstr"}
ToFloat(x) == x.v

\* variant: `if data is not None:`
FalsyNoneOnly(r) == r.kind = "null"

\* bool(data): None and {} are falsy
Falsy(r) == r.kind = "null" \/ (r.kind = "object" /\ r.doc = EmptyDoc)

----------------------------------------------------------------------------
(* HTTP responses of the store *)

NetError == [net |-> "error", status |-> 0, kind |-> "none", doc |-> EmptyDoc]
Http(s, k, d) == [net |-> "ok", status |-> s, kind |-> k, doc |-> d]

Responses ==
    {NetError}
    \cup {Http(200, "object", d) : d \in Docs \ {ErrorDoc}}
    \cup {Http(200, k, EmptyDoc) : k \in {"null", "invalid", "array"}}
    \cup {Http(401, "object", ErrorDoc), Http(401, "invalid", EmptyDoc),
          Http(404, "null", EmptyDoc)}

NoResp == [net |-> "none", status |-> 0, kind |-> "none", doc |-> EmptyDoc]

----------------------------------------------------------------------------
(* Sidebar: microbe profile *)

Microbes == {"E. coli", "S. cerevisiae (Yeast)", "Custom"}

Profile(t, p, d) == [t |-> t, p |-> p, do |-> d]

Ecoli == Profile(3700, 700, 4000)
Yeast == Profile(3000, 500, 2000)

\* values typed into the three number_input widgets (default 37.0 / 7.0 / 40.0)
CustomInputs == {Profile(3700, 700, 4000), Profile(2500, 650, 6000)}

IdealFor(microbe, custom) ==
    IF microbe = "E. coli" THEN Ecoli
    ELSE IF microbe = "S. cerevisiae (Yeast)" THEN Yeast
    ELSE custom

----------------------------------------------------------------------------
(* Control logic *)

ThermalBand == 50
PhBand == 20
DoLow == 500
DoHigh == 1000

\* variant: the band edges belong to the corrective actions
ThermalEdgesExcluded(cur_t, ideal_t) ==
    IF cur_t <= ideal_t - ThermalBand THEN "HEAT_ON"
    ELSE IF cur_t >= ideal_t + ThermalBand THEN "COOLING_ON"
    ELSE "STABLE"

Thermal(cur_t, ideal_t) ==
    IF cur_t < ideal_t - ThermalBand THEN "HEAT_ON"
    ELSE IF cur_t > ideal_t + ThermalBand THEN "COOLING_ON"
    ELSE "STABLE"

\* variant: the thermal band used for pH
PhPumpThermalBand(cur_p, ideal_p) ==
    IF cur_p < ideal_p - ThermalBand THEN "ADD_BASE"
    ELSE IF cur_p > ideal_p + ThermalBand THEN "ADD_ACID"
    ELSE "STABLE"

PhPump(cur_p, ideal_p) ==
    IF cur_p < ideal_p - PhBand THEN "ADD_BASE"
    ELSE IF cur_p > ideal_p + PhBand THEN "ADD_ACID"
    ELSE "STABLE"

\* variant: a symmetric band of 5 on both sides
OxygenFlowSymmetric(cur_do, ideal_do) ==
    IF cur_do < ideal_do - DoLow THEN "INCREASE_AERATION"
    ELSE IF cur_do > ideal_do + DoLow THEN "DECREASE_AERATION"
    ELSE "STABLE"

OxygenFlow(cur_do, ideal_do) ==
    IF cur_do < ideal_do - DoLow THEN "INCREASE_AERATION"
    ELSE IF cur_do > ideal_do + DoHigh THEN "DECREASE_AERATION"
    ELSE "STABLE"

Decide(c, prof) ==
    [thermal |-> Thermal(c.t, prof.t),
     ph_pump |-> PhPump(c.p, prof.p),
     oxygen_flow |-> OxygenFlow(c.do, prof.do)]

\* values ai_brain.predict can return, in ten-thousandths
Efficiencies == {4996, 8504}

\* round(efficiency, 3): to the nearest thousandth, a tie to the even one
Round3(e) ==
    LET q == e \div 10
        r == e % 10
    IN IF r > 5 \/ (r = 5 /\ q % 2 = 1) THEN q + 1 ELSE q

\* the string time.strftime("%H:%M:%S") returns; no step reads it back
Stamps == {"HH:MM:SS"}

\* variant: the commands written as top-level fields
ControlPayloadFlat(acts, score, stamp) ==
    [thermal |-> acts.thermal, ph_pump |-> acts.ph_pump, oxygen_flow |-> acts.oxygen_flow,
     ai_growth_score |-> score, timestamp |-> stamp]

ControlPayload(acts, score, stamp) ==
    [commands |-> acts, ai_growth_score |-> score, timestamp |-> stamp]

\* Firebase PATCH: the named children are replaced, the others kept
Patch(old, upd) ==
    [k \in (DOMAIN old) \cup (DOMAIN upd) |-> IF k \in DOMAIN upd THEN upd[k] ELSE old[k]]

NoControl == [k \in {} |-> 0]

----------------------------------------------------------------------------
(* Operator surface *)

NoReport == [widget |-> "none", msg |-> "none"]
CommunicationError == [widget |-> "error", msg |-> "Communication Error"]
NoData == [widget |-> "error", msg |-> "No data in 'live_readings'"]
\* the two sections; `if efficiency > 0.85` picks st.success or st.warning
Dashboard(e) ==
    [widget |-> IF e > 8500 THEN "success" ELSE "warning", msg |-> "dashboard"]

\* an exception that left the fragment: Streamlit shows the traceback, the run is over
Uncaught == [ui |-> [widget |-> "exception", msg |-> "traceback"], pc |-> "CRASHED"]

\* except Exception as e: st.error(...), then the fragment returns
Caught == [ui |-> CommunicationError, pc |-> "SLEEPING"]

----------------------------------------------------------------------------
(* Values of the locals before they are assigned *)

NoCur == [set |-> FALSE, t |-> 0, p |-> 0, do |-> 0, od |-> 0]
NoEfficiency == [set |-> FALSE, e |-> 0]
NoActions == [thermal |-> "unset", ph_pump |-> "unset", oxygen_flow |-> "unset"]
NoPayload == [commands |-> NoActions, ai_growth_score |-> 0, timestamp |-> "unset"]

Init ==
    /\ \E m \in Microbes, c \in CustomInputs : ideal = IdealFor(m, c)
    /\ control = NoControl
    /\ pc = "FETCHING"
    /\ resp = NoResp
    /\ cur = NoCur
    /\ efficiency = NoEfficiency
    /\ actions = NoActions
    /\ payload = NoPayload
    /\ patched = <<>>
    /\ patchResult = "none"
    /\ ui = NoReport

\* requests.get, response.json(), `if data:` and the handlers of the two ways out
Fetch ==
    /\ pc = "FETCHING"
    /\ \E r \in Responses :
        /\ resp' = r
        /\ IF r.net = "error" \/ r.kind = "invalid"
             THEN ui' = Caught.ui /\ pc' = Caught.pc
             ELSE IF Falsy(r)
                    THEN ui' = NoData /\ pc' = "SLEEPING"
                    ELSE ui' = ui /\ pc' = "DECIDING"
    /\ UNCHANGED <<ideal, control, cur, efficiency, actions, payload, patched, patchResult>>

\* data.get on a JSON array, or float() on a value that is no number, raises
ExtractRaises(r) ==
    \/ r.kind # "object"
    \/ \E k \in ReadKeys : FloatRaises(DictGet(r.doc, k))

\* variant: the oxygen and density channels read under camel-case names
ExtractCamel(d) ==
    [set |-> TRUE,
     t |-> ToFloat(DictGet(d, "temperature")),
     p |-> ToFloat(DictGet(d, "ph")),
     do |-> ToFloat(DictGet(d, "dissolvedOxygen")),
     od |-> ToFloat(DictGet(d, "opticalDensity"))]

Extract(d) ==
    [set |-> TRUE,
     t |-> ToFloat(DictGet(d, "temperature")),
     p |-> ToFloat(DictGet(d, "ph")),
     do |-> ToFloat(DictGet(d, "dissolved_oxygen")),
     od |-> ToFloat(DictGet(d, "optical_density"))]

\* feature extraction, prediction, control logic, control_payload
Compute ==
    /\ pc = "DECIDING"
    /\ IF ExtractRaises(resp)
         THEN /\ ui' = Caught.ui
              /\ pc' = Caught.pc
              /\ UNCHANGED <<cur, efficiency, actions, payload>>
         ELSE /\ cur' = Extract(resp.doc)
              /\ \E e \in Efficiencies : efficiency' = [set |-> TRUE, e |-> e]
              /\ actions' = Decide(cur', ideal)
              /\ \E stamp \in Stamps :
                    payload' = ControlPayload(actions', Round3(efficiency'.e), stamp)
              /\ pc' = "PUBLISHING"
              /\ ui' = ui
    /\ UNCHANGED <<ideal, control, resp, patched, patchResult>>

PatchResults == {"ok", "rejected", "neterror"}

\* requests.patch and the rendering of the two sections
Publish ==
    /\ pc = "PUBLISHING"
    /\ patched' = Append(patched, payload)
    /\ \E res \in PatchResults :
        /\ patchResult' = res
        /\ control' = IF res = "ok" THEN Patch(control, payload) ELSE control
        /\ ui' = IF res = "neterror" THEN Caught.ui
                 ELSE Dashboard(efficiency.e)
        /\ pc' = IF res = "neterror" THEN Caught.pc ELSE "SLEEPING"
    /\ UNCHANGED <<ideal, resp, cur, efficiency, actions, payload>>

\* run_every=5: the fragment is called again
Rerun ==
    /\ pc = "SLEEPING"
    /\ pc' = "FETCHING"
    /\ resp' = NoResp
    /\ cur' = NoCur
    /\ efficiency' = NoEfficiency
    /\ actions' = NoActions
    /\ payload' = NoPayload
    /\ patched' = <<>>
    /\ patchResult' = "none"
    /\ ui' = NoReport
    /\ UNCHANGED <<ideal, control>>

Next == Fetch \/ Compute \/ Publish \/ Rerun

Spec == Init /\ [][Next]_vars

FairSpec == Spec /\ WF_vars(Rerun)

----------------------------------------------------------------------------
(* Properties *)

\* the run has extracted a reading and derived its commands
Decided == pc \in {"PUBLISHING", "SLEEPING"} /\ cur.set

\* the run is over
Returned == pc = "SLEEPING"

AllStable == [thermal |-> "STABLE", ph_pump |-> "STABLE", oxygen_flow |-> "STABLE"]

\* C1: the commands derived by a run follow the deadband rule channel by channel:
\* below the lower edge the raising action, above the upper edge the lowering
\* action, on the edges and between them STABLE; each channel is decided by its own
\* reading and setpoint, and the payload carries these commands.
C1_DeadbandRule ==
    Decided =>
        /\ actions.thermal =
             (CASE cur.t < ideal.t - 50 -> "HEAT_ON"
                [] cur.t > ideal.t + 50 -> "COOLING_ON"
                [] cur.t >= ideal.t - 50 /\ cur.t <= ideal.t + 50 -> "STABLE")
        /\ actions.ph_pump =
             (CASE cur.p < ideal.p - 20 -> "ADD_BASE"
                [] cur.p > ideal.p + 20 -> "ADD_ACID"
                [] cur.p >= ideal.p - 20 /\ cur.p <= ideal.p + 20 -> "STABLE")
        /\ actions.oxygen_flow =
             (CASE cur.do < ideal.do - 500 -> "INCREASE_AERATION"
                [] cur.do > ideal.do + 1000 -> "DECREASE_AERATION"
                [] cur.do >= ideal.do - 500 /\ cur.do <= ideal.do + 1000 -> "STABLE")
        /\ payload.commands = actions

\* a published decision with the temperature on the lower band edge and the pH above its band
C1_Witness ==
    /\ Returned /\ cur.set /\ patchResult = "ok"
    /\ cur.t = ideal.t - 50 /\ actions.thermal = "STABLE"
    /\ cur.p > ideal.p + 20 /\ actions.ph_pump = "ADD_ACID"
    /\ actions.oxygen_flow = "STABLE"
    /\ control.commands = actions

\* C2 as stated: with ideal pH 7.0, pH 6.75 gives STABLE, 6.7 gives ADD_BASE, 7.25
\* gives ADD_ACID.
C2_AsStated ==
    (Decided /\ ideal.p = 700) =>
        /\ cur.p = 675 => actions.ph_pump = "STABLE"
        /\ cur.p = 670 => actions.ph_pump = "ADD_BASE"
        /\ cur.p = 725 => actions.ph_pump = "ADD_ACID"

\* C2 amended: with ideal pH 7.0, pH 6.75 gives ADD_BASE (6.75 is below 6.8), 6.7 gives
\* ADD_BASE, 7.25 gives ADD_ACID.
C2_PhBoundary ==
    (Decided /\ ideal.p = 700) =>
        /\ cur.p = 675 => actions.ph_pump = "ADD_BASE"
        /\ cur.p = 670 => actions.ph_pump = "ADD_BASE"
        /\ cur.p = 725 => actions.ph_pump = "ADD_ACID"

C2_Witness ==
    /\ Decided /\ ideal.p = 700 /\ cur.p = 675 /\ actions.ph_pump = "ADD_BASE"
    /\ resp.doc["ph"] = Num(675)

\* C3 as stated: with ideal DO 40.0, DO 36 and 34.9 give INCREASE_AERATION, 49 gives
\* STABLE, 51 gives DECREASE_AERATION.
C3_AsStated ==
    (Decided /\ ideal.do = 4000) =>
        /\ cur.do = 3600 => actions.oxygen_flow = "INCREASE_AERATION"
        /\ cur.do = 3490 => actions.oxygen_flow = "INCREASE_AERATION"
        /\ cur.do = 4900 => actions.oxygen_flow = "STABLE"
        /\ cur.do = 5100 => actions.oxygen_flow = "DECREASE_AERATION"

\* C3 amended: with ideal DO 40.0, DO 36 gives STABLE (36 is not below 35), 34.9 gives
\* INCREASE_AERATION, 49 gives STABLE, 51 gives DECREASE_AERATION.
C3_AerationBoundary ==
    (Decided /\ ideal.do = 4000) =>
        /\ cur.do = 3600 => actions.oxygen_flow = "STABLE"
        /\ cur.do = 3490 => actions.oxygen_flow = "INCREASE_AERATION"
        /\ cur.do = 4900 => actions.oxygen_flow = "STABLE"
        /\ cur.do = 5100 => actions.oxygen_flow = "DECREASE_AERATION"

C3_Witness ==
    Decided /\ ideal.do = 4000 /\ cur.do = 3600 /\ actions.oxygen_flow = "STABLE"

\* the reading of the end-to-end scenario under the names the code reads
SnakeDoc == MkDoc(Num(3700), Num(700), Num(4000), Num(80))

FetchFailed == resp.net = "error" \/ (resp.net = "ok" /\ (resp.status # 200 \/ resp.kind = "invalid"))

\* C5: a run whose fetch failed reports the failure and neither computes nor writes a
\* directive.
C5_FetchFailureSkips ==
    (Returned /\ FetchFailed) =>
        /\ ui.widget = "error"
        /\ ~cur.set /\ payload = NoPayload
        /\ patched = <<>>

\* the body is JSON null or the empty object
EmptyBody == resp.kind = "null" \/ (resp.kind = "object" /\ resp.doc = EmptyDoc)

\* the fetch succeeded with an empty or absent document
EmptyReading == resp.net = "ok" /\ resp.status = 200 /\ EmptyBody

NonEmptyReading == resp.net = "ok" /\ resp.status = 200 /\ resp.kind = "object" /\ ~EmptyBody

Channel(k) ==
    CASE k = "temperature" -> cur.t
      [] k = "ph" -> cur.p
      [] k = "dissolved_oxygen" -> cur.do
      [] k = "optical_density" -> cur.od

MissingKeys == {k \in ReadKeys : resp.doc[k].t = "absent"}
MalformedKeys == {k \in ReadKeys : resp.doc[k].t \in {"str", "null"}}

ThermalTokens == {"STABLE", "HEAT_ON", "COOLING_ON"}
PhTokens == {"STABLE", "ADD_BASE", "ADD_ACID"}
AerationTokens == {"STABLE", "INCREASE_AERATION", "DECREASE_AERATION"}

\* C8 as stated: every document written to the control path has the top-level fields
\* thermal, ph_pump, oxygen_flow, ai_growth_score and timestamp, each token in the
\* enumeration of its channel.
C8_AsStated ==
    \A i \in 1..Len(patched) :
        /\ {"thermal", "ph_pump", "oxygen_flow", "ai_growth_score", "timestamp"}
              \subseteq DOMAIN patched[i]
        /\ patched[i]["thermal"] \in ThermalTokens
        /\ patched[i]["ph_pump"] \in PhTokens
        /\ patched[i]["oxygen_flow"] \in AerationTokens

WellFormedControl(doc) ==
    /\ DOMAIN doc = {"commands", "ai_growth_score", "timestamp"}
    /\ DOMAIN doc["commands"] = {"thermal", "ph_pump", "oxygen_flow"}
    /\ doc["commands"]["thermal"] \in ThermalTokens
    /\ doc["commands"]["ph_pump"] \in PhTokens
    /\ doc["commands"]["oxygen_flow"] \in AerationTokens

\* C8 amended: every document written to the control path has exactly the top-level
\* fields commands, ai_growth_score and timestamp; the tokens are the fields thermal,
\* ph_pump and oxygen_flow of the nested commands object, each in the enumeration of
\* its channel; the stored control document has the same shape.
C8_ControlDocumentShape ==
    /\ \A i \in 1..Len(patched) : WellFormedControl(patched[i])
    /\ control # NoControl => WellFormedControl(control)

C8_Witness ==
    /\ Returned /\ Len(patched) = 1 /\ patchResult = "ok" /\ control = patched[1]
    /\ control["commands"]["thermal"] = "COOLING_ON"

LoopStates == {"FETCHING", "DECIDING", "PUBLISHING", "SLEEPING"}

FreshRun ==
    /\ resp = NoResp /\ cur = NoCur /\ efficiency = NoEfficiency
    /\ actions = NoActions /\ payload = NoPayload
    /\ patched = <<>> /\ patchResult = "none" /\ ui = NoReport

\* C9: no failure of a run leaves the loop: the fragment is always at one of its four
\* steps, a run that reported a failure has returned, every returned run is followed
\* by the start of a next run, and a run starts from fresh locals whatever the
\* previous run did.
C9_LoopContinues ==
    /\ [](pc \in LoopStates)
    /\ [](ui.widget = "error" => Returned)
    /\ [](pc = "FETCHING" => FreshRun)
    /\ (Returned ~> (pc = "FETCHING" /\ FreshRun))

\* a run whose publication failed on the network, after an earlier run had published
C9_Witness ==
    /\ Returned /\ patchResult = "neterror" /\ ui = CommunicationError
    /\ control # NoControl

\* C10: a run makes at most one publish attempt, only after a successful non-empty
\* fetch and a decision of the same run; a failed attempt is reported to the operator
\* and the run ends without retry or rollback.
C10_PublishOnceAndReport ==
    Returned =>
        /\ Len(patched) <= 1
        /\ Len(patched) = 1 =>
              /\ ~FetchFailed /\ ~EmptyBody
              /\ cur.set /\ patched[1] = payload
        /\ patchResult \in {"rejected", "neterror"} => ui.widget = "error"
====
